---- MODULE Spec2Model ----
(***************************************************************************)
(* Model of src/main.py: the paginated GitHub fetcher                      *)
(* (fetch_paginated_data), the three task extractors that call it, and    *)
(* the main workflow that runs them in sequence.                           *)
(*                                                                         *)
(* Python's None and an optional value are modelled as sequences of       *)
(* length 0 and 1: None is <<>>, a present value v is <<v>>.               *)
(***************************************************************************)
EXTENDS Integers, Sequences, FiniteSets, TLC

(* ---- bounds of the model ---------------------------------------------- *)
\* the source has pages 1..MaxPage: it offers no continuation on page MaxPage
MaxPage == 2
\* a response carries at most this many records
MaxPageLen == 2
\* max_items is None or one of 0..MaxCap
MaxCap == 3
\* the commit lists handed to the commit extractor on its own have at most this length
MaxCommits == 3

(* ---- optional values --------------------------------------------------- *)
None     == <<>>
Some(v)  == <<v>>
IsNone(o) == Len(o) = 0
Val(o)   == o[1]

Min(a, b) == IF a <= b THEN a ELSE b

VARIABLES
  GITHUB_TOKEN,   \* TRUE iff os.getenv("GITHUB_TOKEN") is a non-empty string
  max_items,      \* the cap handed to every task: None or Some(n)
  mode,           \* "main": run as a script; "call": one task function is called
  task,           \* the task whose function is running ("none" before the first)
  pc,             \* position of the single thread of control
  page,           \* fetch_paginated_data: local page
  all_items,      \* fetch_paginated_data: local all_items
  result,         \* value returned by the last fetch_paginated_data call (optional list)
  files,          \* file name -> optional list of the records written
  dataset_code_repair, \* task_2_and_4_commits: local list awaiting its save
  lastReq,        \* history: page number of the last request of this fetch, 0 if none
  served,         \* history: the successful responses of this fetch, in order
  lastFail,       \* history: kind of the last failed request of this fetch
  retry,          \* history: snapshot taken when a rate-limit failure is handled
  endCause,       \* history: why the last fetch left its loop
  order           \* history: the tasks started so far, in order

vars == << GITHUB_TOKEN, max_items, mode, task, pc, page, all_items, result, files,
           dataset_code_repair, lastReq, served, lastFail, retry, endCause, order >>

config == << GITHUB_TOKEN, max_items, mode >>
hist   == << lastReq, served, lastFail, retry, endCause >>

(* ---- text: str.lower() and the substring / whole-word tests ------------ *)
(* A text is the sequence of its maximal runs of word characters; the runs *)
(* that occur in the model's texts are listed with their lower-case form.  *)
Lower(w) ==
  CASE w = "Bad" -> "bad"
    [] w = "Credentials" -> "credentials"
    [] w = "API" -> "api"
    [] w = "Rate" -> "rate"
    [] w = "Limit" -> "limit"
    [] w = "Exceeded" -> "exceeded"
    [] w = "Server" -> "server"
    [] w = "Error" -> "error"
    [] w = "Client" -> "client"
    [] w = "Fix" -> "fix"
    [] w = "FIXED" -> "fixed"
    [] w = "Merge" -> "merge"
    [] w = "Add" -> "add"
    [] w = "Bug" -> "bug"
    [] OTHER -> w

LowerText(t) == [i \in 1..Len(t) |-> Lower(t[i])]

\* Python's `phrase in text`, on word runs
Contains(t, phrase) ==
  \E i \in 1..(Len(t) - Len(phrase) + 1) : SubSeq(t, i, i + Len(phrase) - 1) = phrase

\* str(e) of the RequestException a request may raise
ErrorTexts ==
  { <<"401", "Client", "Error", "Bad", "Credentials">>,
    <<"403", "API", "Rate", "Limit", "Exceeded">>,
    <<"403", "rate", "limit", "exceeded", "bad", "credentials">>,
    <<"500", "Server", "Error">>,
    <<"429", "rate", "limit", "reached">> }

\* the branch the except-clause takes for an error text
ClassifyError(e) ==
  LET error_message == LowerText(e) IN
  IF Contains(error_message, <<"bad", "credentials">>) THEN "auth"
  ELSE IF Contains(error_message, <<"rate", "limit", "exceeded">>) THEN "rate"
  ELSE "other"

(* ---- records ------------------------------------------------------------ *)
Tasks == {"issues", "pulls", "commits"}

\* commit messages, as word runs
Messages ==
  { <<"Fix", "typo">>, <<"Add", "docs">>, <<"prefix", "patched">>,
    <<"Merge", "bug", "branch">>, <<"FIXED", "it">> }

\* the identifier the source gives the i-th record of page p
RecId(p, i) == (p - 1) * MaxPageLen + i

\* the record the source holds under identifier n of a task's endpoint: every
\* second issue is a pull request, every third commit a merge, and the commit
\* messages alternate between one that names a fix and one that does not
SourceRecord(t, n) ==
  CASE t = "issues"  -> [id |-> n, pull_request |-> (n % 2 = 0)]
    [] t = "pulls"   -> [id |-> n]
    [] t = "commits" -> [sha |-> n,
                         parents |-> IF n % 3 = 0 THEN 2 ELSE 1,
                         message |-> IF n % 2 = 1 THEN <<"Fix", "typo">>
                                     ELSE <<"Add", "docs">>]

\* the record lists the source can return for page p: 0..MaxPageLen records,
\* and none beyond page MaxPage
PageData(t, p) ==
  IF p > MaxPage THEN { <<>> }
  ELSE { [i \in 1..n |-> SourceRecord(t, RecId(p, i))] : n \in 0..MaxPageLen }

(* ---- fetch_paginated_data: the pieces of its loop ----------------------- *)
\* the cap test with > for >=
CapReached_Strict(items, cap) == ~IsNone(cap) /\ Len(items) > Val(cap)

\* line 59: the cap test made before each request
CapReached(items, cap) == ~IsNone(cap) /\ Len(items) >= Val(cap)

\* Python's items[:n]
Slice(items, n) ==
  IF n >= 0 THEN SubSeq(items, 1, Min(n, Len(items)))
  ELSE SubSeq(items, 1, Len(items) + n)

\* the return without the slice
Truncate_NoLimit(items, cap) == items

\* lines 107-109: the value returned after the loop
Truncate(items, cap) == IF IsNone(cap) THEN items ELSE Slice(items, Val(cap))

\* the new page put in front of the accumulated records
Extend_Prepend(items, data) == data \o items

\* line 78: all_items.extend(data)
Extend(items, data) == items \o data

\* line 74: `not data`
IsEmptyPage(data) == Len(data) = 0

\* the 'next' test left out
NoNextLink_Never(hasNext) == FALSE

\* line 82: 'next' not in response.links
NoNextLink(hasNext) == ~hasNext

\* line 86: the page requested after a page that has a 'next' link
AdvancePage(p) == p + 1

\* the page advanced on a rate-limit failure
RetryPage_Skip(p) == p + 1

\* line 102: the page requested after the rate-limit cooldown
RetryPage(p) == p

(* ---- the task extractors: pure mappings over the fetched records -------- *)
(* A task record keeps its task tag and the fields that identify the raw   *)
(* record; the fields copied over unchanged (title, body, url, labels,      *)
(* diff_url, state, author) are left out.                                    *)
\* the alternatives of the regular expression fix_keywords (line 169)
FixKeywords ==
  { "fix", "fixes", "fixed", "bug", "patch", "correct", "corrects", "corrected" }

\* fix_keywords.search(message): \b...\b with re.IGNORECASE selects a whole run
FixMatch(message) == \E i \in 1..Len(message) : Lower(message[i]) \in FixKeywords

\* the merge test with the wrong threshold
IsMerge_Octopus(commit) == commit.parents > 2

\* line 177: the merge-commit test
IsMerge(commit) == commit.parents > 1

\* lines 125-131
IsPlainIssue(issue) == ~issue.pull_request
CodeSearchRecord(issue) == [task |-> "code_search", id |-> issue.id]
CodeSearchDataset(issues) ==
  LET kept == SelectSeq(issues, IsPlainIssue)
  IN  [i \in 1..Len(kept) |-> CodeSearchRecord(kept[i])]

\* lines 147-152
BugClassRecord(pr) == [task |-> "bug_classification", id |-> pr.id]
BugClassDataset(prs) == [i \in 1..Len(prs) |-> BugClassRecord(prs[i])]

\* lines 174-189
NotMerge(commit) == ~IsMerge(commit)
RepairCandidate(commit) == NotMerge(commit) /\ FixMatch(commit.message)
CommitGenRecord(c) == [task |-> "commit_gen", sha |-> c.sha, message |-> c.message]
CodeRepairRecord(c) == [task |-> "code_repair", sha |-> c.sha, message |-> c.message]
CommitGenDataset(commits) ==
  LET kept == SelectSeq(commits, NotMerge)
  IN  [i \in 1..Len(kept) |-> CommitGenRecord(kept[i])]
CodeRepairDataset(commits) ==
  LET kept == SelectSeq(commits, RepairCandidate)
  IN  [i \in 1..Len(kept) |-> CodeRepairRecord(kept[i])]

FileNames ==
  { "task_1_code_search.jsonl", "task_2_code_repair.jsonl",
    "task_3_bug_classification.jsonl", "task_4_commit_gen.jsonl" }

\* save_to_jsonl (lines 41-46): the file holds exactly data_list, in order
save_to_jsonl(fs, filename, data_list) == [fs EXCEPT ![filename] = Some(data_list)]

(* ---- initial state -------------------------------------------------------- *)
Caps == { None } \cup { Some(n) : n \in 0..MaxCap }

Init ==
  /\ GITHUB_TOKEN \in BOOLEAN
  /\ max_items \in Caps
  /\ mode \in { "main", "call" }
  /\ task = "none"
  /\ pc = "start"
  /\ page = 1
  /\ all_items = <<>>
  /\ result = None
  /\ files = [f \in FileNames |-> None]
  /\ dataset_code_repair = <<>>
  /\ lastReq = 0
  /\ served = <<>>
  /\ lastFail = "none"
  /\ retry = None
  /\ endCause = "none"
  /\ order = <<>>

(* ---- entering and leaving a task ---------------------------------------- *)
\* a task function is entered and calls fetch_paginated_data (lines 54-56)
Begin(t) ==
  /\ task' = t
  /\ order' = Append(order, t)
  /\ all_items' = <<>>
  /\ page' = 1
  /\ result' = None
  /\ lastReq' = 0
  /\ served' = <<>>
  /\ lastFail' = "none"
  /\ retry' = None
  /\ endCause' = "none"
  /\ pc' = "loop"

\* the pull-request task left out of the workflow
NextTask_SkipPulls(t) == "commits"

\* lines 206-212: the order of the calls in the main workflow
NextTask(t) == IF t = "issues" THEN "pulls" ELSE "commits"

\* a task function returns: the main workflow calls the next one
Proceed(t) ==
  IF mode = "main" /\ t # "commits"
  THEN Begin(NextTask(t))
  ELSE /\ pc' = "completed"
       /\ UNCHANGED << task, order, all_items, page, result, hist >>

\* lines 198-206
MainStart ==
  /\ pc = "start" /\ mode = "main" /\ GITHUB_TOKEN
  /\ Begin("issues")
  /\ UNCHANGED << config, files, dataset_code_repair >>

\* lines 221-224
MainNoToken ==
  /\ pc = "start" /\ mode = "main" /\ ~GITHUB_TOKEN
  /\ pc' = "not_started"
  /\ UNCHANGED << config, task, page, all_items, result, files, dataset_code_repair,
                  hist, order >>

\* a task function called on its own, as an importer of the module would
CallTask ==
  /\ pc = "start" /\ mode = "call"
  /\ \E t \in Tasks : Begin(t)
  /\ UNCHANGED << config, files, dataset_code_repair >>

(* ---- fetch_paginated_data ------------------------------------------------ *)
\* leaving the loop and returning (lines 107-109)
Return(items, cause) ==
  /\ result' = Some(Truncate(items, max_items))
  /\ endCause' = cause
  /\ pc' = "returned"

\* lines 59-61
LoopCapBreak ==
  /\ pc = "loop"
  /\ CapReached(all_items, max_items)
  /\ Return(all_items, "cap")
  /\ UNCHANGED << config, task, page, all_items, files, dataset_code_repair,
                  lastReq, served, lastFail, retry, order >>

\* lines 66-68
LoopNoToken ==
  /\ pc = "loop"
  /\ ~CapReached(all_items, max_items)
  /\ ~GITHUB_TOKEN
  /\ result' = None
  /\ endCause' = "no_token"
  /\ pc' = "returned"
  /\ UNCHANGED << config, task, page, all_items, files, dataset_code_repair,
                  lastReq, served, lastFail, retry, order >>

\* lines 63, 70: the request for the current page goes out
SendRequest ==
  /\ pc = "loop"
  /\ ~CapReached(all_items, max_items)
  /\ GITHUB_TOKEN
  /\ lastReq' = page
  /\ pc' = "await"
  /\ UNCHANGED << config, task, page, all_items, result, files, dataset_code_repair,
                  served, lastFail, retry, endCause, order >>

\* lines 71-88: a successful response with records `data` and a 'next' link or not
RespondOK ==
  /\ pc = "await"
  /\ \E data \in PageData(task, page), hasNext \in BOOLEAN :
       /\ hasNext => page < MaxPage
       /\ served' = Append(served, [page |-> page, data |-> data, next |-> hasNext])
       /\ retry' = None
       /\ IF IsEmptyPage(data)
          THEN /\ Return(all_items, "empty")
               /\ UNCHANGED << all_items, page >>
          ELSE /\ all_items' = Extend(all_items, data)
               /\ IF NoNextLink(hasNext)
                  THEN /\ Return(all_items', "no_next")
                       /\ UNCHANGED page
                  ELSE /\ page' = AdvancePage(page)
                       /\ pc' = "pause"
                       /\ UNCHANGED << result, endCause >>
  /\ UNCHANGED << config, task, files, dataset_code_repair, lastReq, lastFail, order >>

\* line 88: time.sleep(1) is over
PauseDone ==
  /\ pc = "pause"
  /\ pc' = "loop"
  /\ UNCHANGED << config, task, page, all_items, result, files, dataset_code_repair,
                  hist, order >>

\* every failure but a bad credential retried
OnFailure_RetryOther(kind) == IF kind = "auth" THEN "break" ELSE "retry"

\* what the except-clause does with a failure of the given kind (lines 94-105):
\* "break" leaves the loop, "retry" sleeps and continues
OnFailure(kind) == IF kind = "rate" THEN "retry" ELSE "break"

\* lines 90-105: the request raises a RequestException with text e
RespondError ==
  /\ pc = "await"
  /\ \E e \in ErrorTexts :
       LET kind == ClassifyError(e) IN
       /\ lastFail' = kind
       /\ IF OnFailure(kind) = "retry"
          THEN /\ retry' = Some([page |-> lastReq, items |-> all_items])
               /\ page' = RetryPage(page)
               /\ pc' = "cooldown"
               /\ UNCHANGED << result, endCause >>
          ELSE /\ retry' = None
               /\ Return(all_items, kind)
               /\ UNCHANGED page
  /\ UNCHANGED << config, task, all_items, files, dataset_code_repair, lastReq,
                  served, order >>

\* line 100: time.sleep(3601) is over; line 102: continue
CooldownDone ==
  /\ pc = "cooldown"
  /\ pc' = "loop"
  /\ UNCHANGED << config, task, page, all_items, result, files, dataset_code_repair,
                  hist, order >>

(* ---- the task functions after their fetch -------------------------------- *)
\* task_1_code_search, lines 122-132
Task1Finish ==
  /\ pc = "returned" /\ task = "issues"
  /\ files' = IF IsNone(result) THEN files
              ELSE save_to_jsonl(files, "task_1_code_search.jsonl",
                                 CodeSearchDataset(Val(result)))
  /\ Proceed("issues")
  /\ UNCHANGED << config, dataset_code_repair >>

\* task_3_bug_classification, lines 144-153
Task3Finish ==
  /\ pc = "returned" /\ task = "pulls"
  /\ files' = IF IsNone(result) THEN files
              ELSE save_to_jsonl(files, "task_3_bug_classification.jsonl",
                                 BugClassDataset(Val(result)))
  /\ Proceed("pulls")
  /\ UNCHANGED << config, dataset_code_repair >>

\* task_2_and_4_commits, line 166: the fetch signalled "no token"
Task24NoToken ==
  /\ pc = "returned" /\ task = "commits"
  /\ IsNone(result)
  /\ Proceed("commits")
  /\ UNCHANGED << config, files, dataset_code_repair >>

\* task_2_and_4_commits, lines 169-192: the loop over the commits and the first save
Task24Extract ==
  /\ pc = "returned" /\ task = "commits"
  /\ ~IsNone(result)
  /\ dataset_code_repair' = CodeRepairDataset(Val(result))
  /\ files' = save_to_jsonl(files, "task_4_commit_gen.jsonl",
                            CommitGenDataset(Val(result)))
  /\ pc' = "save_repair"
  /\ UNCHANGED << config, task, page, all_items, result, hist, order >>

\* task_2_and_4_commits, line 193: the second save, and the return
Task24SaveRepair ==
  /\ pc = "save_repair"
  /\ files' = save_to_jsonl(files, "task_2_code_repair.jsonl", dataset_code_repair)
  /\ dataset_code_repair' = <<>>
  /\ Proceed("commits")
  /\ UNCHANGED config

Next ==
  \/ MainStart
  \/ MainNoToken
  \/ CallTask
  \/ LoopCapBreak
  \/ LoopNoToken
  \/ SendRequest
  \/ RespondOK
  \/ RespondError
  \/ PauseDone
  \/ CooldownDone
  \/ Task1Finish
  \/ Task3Finish
  \/ Task24NoToken
  \/ Task24Extract
  \/ Task24SaveRepair

Spec == Init /\ [][Next]_vars

(* ---- the commit extractor on its own -------------------------------------- *)
\* a commit list a fetch can hand to task_2_and_4_commits: the i-th commit has
\* sha i, and f gives it a number of parents in 0..2 and one of the messages
CommitList(n, f) ==
  [i \in 1..n |-> [sha |-> i, parents |-> f[i][1], message |-> f[i][2]]]

\* task_2_and_4_commits at line 166, its fetch having returned the list
InitCommits ==
  /\ GITHUB_TOKEN = TRUE
  /\ max_items = None
  /\ mode = "call"
  /\ task = "commits"
  /\ pc = "returned"
  /\ page = 1
  /\ \E n \in 0..MaxCommits :
       \E f \in [1..n -> (0..2) \X Messages] :
          /\ all_items = CommitList(n, f)
          /\ result = Some(CommitList(n, f))
  /\ files = [f \in FileNames |-> None]
  /\ dataset_code_repair = <<>>
  /\ lastReq = 1
  /\ served = << [page |-> 1, data |-> all_items, next |-> FALSE] >>
  /\ lastFail = "none"
  /\ retry = None
  /\ endCause = IF Len(all_items) = 0 THEN "empty" ELSE "no_next"
  /\ order = << "commits" >>

NextCommits ==
  \/ Task24Extract
  \/ Task24SaveRepair

SpecCommits == InitCommits /\ [][NextCommits]_vars

(* ---- the workflow under fair scheduling ----------------------------------- *)
\* the single thread always takes its next step and every request is answered
FairSpec == Spec /\ WF_vars(Next)

(* ======================= properties ======================================== *)
Last(s) == s[Len(s)]

\* the fetch called last has returned to its task function
FetchReturned == pc \in { "returned", "save_repair", "completed" }

\* the records of the successful responses of this fetch, in arrival order
RECURSIVE Accum(_)
Accum(k) == IF k = 0 THEN <<>> ELSE Accum(k - 1) \o served[k].data
Accumulated == Accum(Len(served))

\* the first min(n, Len(s)) elements of s
FirstN(s, n) == [i \in 1..Min(n, Len(s)) |-> s[i]]

\* s cut to the cap when one is set
UpToCap(s) == IF IsNone(max_items) THEN s ELSE FirstN(s, Val(max_items))

\* the successful response k ends pagination: empty list or no 'next' link
Terminal(k) == Len(served[k].data) = 0 \/ ~served[k].next

\* every element of s occurs in r
AllIn(s, r) == \A i \in 1..Len(s) : \E j \in 1..Len(r) : r[j] = s[i]

(* C1: with a cap N >= 0, a fetch that returns a list returns at most N     *)
(* records, and the list is the first min(N, accumulated count) of the      *)
(* records accumulated from the responses.                                   *)
C1_CapBoundsResult ==
  (FetchReturned /\ ~IsNone(max_items) /\ ~IsNone(result)) =>
     /\ Len(Val(result)) <= Val(max_items)
     /\ Val(result) = FirstN(Accumulated, Val(max_items))

C1_Witness ==
  /\ FetchReturned /\ ~IsNone(max_items) /\ ~IsNone(result)
  /\ Val(max_items) = 3 /\ Len(Accumulated) = 4 /\ Len(Val(result)) = 3

(* C2: called without a credential, fetch_paginated_data returns None and   *)
(* issues no request, whatever the cap (None, 0 or positive).                *)
C2_NoTokenReturnsNone ==
  (FetchReturned /\ ~GITHUB_TOKEN) => (IsNone(result) /\ lastReq = 0)

(* C3: a fetch ended by an authentication failure returns a signal the      *)
(* caller can tell from the result of a fetch that ran out of data.  The    *)
(* latter is always a list, so the signal has to be the one non-list value   *)
(* the function returns, None.                                                *)
C3_AuthFailureSignalled ==
  (FetchReturned /\ endCause = "auth") => IsNone(result)

(* C4: after a rate-limit failure the cooldown is followed by a request for *)
(* the same page with the accumulated records unchanged; the page number    *)
(* changes only by one, after a successful non-empty response with a 'next' *)
(* link; so the successful responses are those of pages 1, 2, ... in order, *)
(* none skipped, and each one's records are accumulated exactly once.        *)
C4_RetrySamePage ==
  /\ [](pc = "cooldown" => (~IsNone(retry) /\ page = Val(retry).page))
  /\ []((pc = "loop" /\ ~IsNone(retry)) =>
          (GITHUB_TOKEN /\ ~(~IsNone(max_items) /\ Len(all_items) >= Val(max_items))))
  /\ []((pc = "await" /\ ~IsNone(retry)) =>
          (lastReq = Val(retry).page /\ all_items = Val(retry).items))
  /\ [][(page' # page) =>
          \/ pc' = "loop" /\ page' = 1 /\ served' = <<>>
          \/ /\ pc = "await" /\ page' = page + 1
             /\ Len(served') = Len(served) + 1
             /\ Len(Last(served').data) > 0 /\ Last(served').next
             /\ Last(served').page = page]_vars
  /\ []((\A k \in 1..Len(served) : served[k].page = k) /\ all_items = Accumulated)

C4_Witness ==
  /\ pc = "await" /\ ~IsNone(retry) /\ lastFail = "rate"
  /\ lastReq = 2 /\ Len(all_items) = 2

(* C5 (as stated): after a successful response that is empty or has no      *)
(* 'next' link the fetch issues no further request and returns, and the     *)
(* records of a non-empty final page are included in the result.             *)
C5_FinalPageInResult ==
  (Len(served) > 0 /\ Terminal(Len(served))) =>
     /\ FetchReturned /\ ~IsNone(result)
     /\ lastReq = Last(served).page
     /\ AllIn(Last(served).data, Val(result))

(* C5 (amended): after a successful response that is empty or has no 'next' *)
(* link the fetch issues no further request and returns; the records of a   *)
(* non-empty final page are added to the accumulated records, and the       *)
(* result is those records, cut to the cap when a cap is set.                *)
C5_TerminalResponseReturns ==
  (Len(served) > 0 /\ Terminal(Len(served))) =>
     /\ FetchReturned /\ ~IsNone(result)
     /\ endCause = (IF Len(Last(served).data) = 0 THEN "empty" ELSE "no_next")
     /\ lastReq = Last(served).page
     /\ all_items = Accumulated
     /\ Val(result) = UpToCap(Accumulated)

C5_Witness ==
  /\ FetchReturned /\ endCause = "no_next" /\ Len(served) = 2
  /\ max_items = Some(3) /\ Len(Last(served).data) = 2 /\ Len(Val(result)) = 3

\* the number of records in the first k successful responses
RECURSIVE CountUpTo(_)
CountUpTo(k) == IF k = 0 THEN 0 ELSE CountUpTo(k - 1) + Len(served[k].data)

(* C6: the cap is tested before each request: no request is in flight, and  *)
(* none was issued, once the accumulated count had reached the cap; a fetch *)
(* that stops at the cap returns exactly the first N accumulated records.    *)
C6_NoRequestPastCap ==
  ~IsNone(max_items) =>
     /\ pc = "await" => Len(all_items) < Val(max_items)
     /\ \A k \in 0..Len(served) : CountUpTo(k) >= Val(max_items) => lastReq <= k
     /\ (FetchReturned /\ endCause = "cap") =>
           /\ ~IsNone(result)
           /\ Val(result) = FirstN(Accumulated, Val(max_items))
           /\ Len(Val(result)) = Val(max_items)

C6_Witness ==
  /\ FetchReturned /\ endCause = "cap" /\ max_items = Some(1)
  /\ Len(served) = 1 /\ served[1].next /\ Len(served[1].data) = 2
  /\ lastReq = 1 /\ Val(result) = << served[1].data[1] >>

(* C7: with no cap and no failed request, the result is the concatenation,  *)
(* in page order 1..k, of the records of every page up to and including the *)
(* first page that is empty or has no 'next' link.                            *)
C7_ConcatenationInPageOrder ==
  (FetchReturned /\ GITHUB_TOKEN /\ IsNone(max_items) /\ lastFail = "none") =>
     /\ ~IsNone(result)
     /\ Len(served) > 0
     /\ \A k \in 1..Len(served) : served[k].page = k
     /\ \A k \in 1..(Len(served) - 1) : ~Terminal(k)
     /\ Terminal(Len(served))
     /\ Val(result) = Accumulated

C7_Witness ==
  /\ FetchReturned /\ GITHUB_TOKEN /\ IsNone(max_items) /\ lastFail = "none"
  /\ Len(served) = 2 /\ Len(served[1].data) = 2 /\ Len(served[2].data) = 1
  /\ Len(Val(result)) = 3

WorkflowOrder == << "issues", "pulls", "commits" >>

C9_OtherFailurePartialResult ==
  (lastFail = "other") =>
     /\ FetchReturned /\ endCause = "other"
     /\ lastReq = Len(served) + 1
     /\ ~IsNone(result)
     /\ Val(result) = UpToCap(Accumulated)

C9_Witness ==
  /\ lastFail = "other" /\ FetchReturned /\ Len(served) = 1 /\ lastReq = 2
  /\ max_items = Some(3) /\ Len(Val(result)) = 2

\* the shas of a list of records, in order
Shas(s) == [i \in 1..Len(s) |-> s[i].sha]

\* the subsequence of the commits with at most one parent
RECURSIVE NonMerges(_)
NonMerges(cs) ==
  IF Len(cs) = 0 THEN <<>>
  ELSE IF cs[1].parents <= 1 THEN << cs[1] >> \o NonMerges(Tail(cs))
  ELSE NonMerges(Tail(cs))

\* the subsequence of the commits whose message matches a fix-keyword
RECURSIVE Fixes(_)
Fixes(cs) ==
  IF Len(cs) = 0 THEN <<>>
  ELSE IF FixMatch(cs[1].message) THEN << cs[1] >> \o Fixes(Tail(cs))
  ELSE Fixes(Tail(cs))

CommitGenFile == files["task_4_commit_gen.jsonl"]
CodeRepairFile == files["task_2_code_repair.jsonl"]

====
